---- MODULE Spec2Model ----
(***************************************************************************)
(* Model of the biosvg captcha generator: src/src/model.rs (Command, Path, *)
(* Path::random_split) and src/src/lib.rs (BiosvgBuilder::build).          *)
(*                                                                         *)
(* Numbers.  The program computes with f64.  The model uses integers: a    *)
(* coordinate or a size is a whole number of units, a scale factor is a    *)
(* number of tenths, a cosine or sine a number of thousandths, and every   *)
(* product with a decimal constant (1.5, 0.55, 0.4, 0.1, 1/12) is written  *)
(* as the integer product followed by \div.  The glyph sizes are chosen    *)
(* so that the layout quantities are exact.                                *)
(*                                                                         *)
(* Randomness.  Every rng draw is a nondeterministic choice (\E) from a    *)
(* small sample of the range the code draws from; a draw from an empty     *)
(* range, and unwrap() on the None that choose() returns for an empty      *)
(* Vec, is a panic.                                                        *)
(***************************************************************************)
EXTENDS Integers, Sequences, FiniteSets, TLC

VARIABLES
    length,       \* BiosvgBuilder.length
    difficulty,   \* BiosvgBuilder.difficulty
    colors,       \* BiosvgBuilder.colors
    pc,           \* position of build in its body
    answer,       \* build: answer
    char_colors,  \* build: char_colors
    line_colors,  \* build: line_colors
    font_paths,   \* build: font_paths
    gi,           \* build: position of `for ch in answer.chars()`
    draw,         \* build: the locals random_angle .. random_scale_y of the last glyph
    width,        \* build: width
    height,       \* build: height
    start_point,  \* build: start_point
    li,           \* build: position of `for path in font_paths`
    place,        \* build: the locals offset_x, offset_y of the last placed glyph
    paths,        \* build: paths
    ni,           \* build: position of `for _ in 1..self.difficulty`
    result,       \* what build returned, or the panic that ended it
    sp            \* Path::random_split: self and its locals

buildVars == <<length, difficulty, colors, pc, answer, char_colors, line_colors,
               font_paths, gi, draw, width, height, start_point, li, place,
               paths, ni, result>>
vars == <<length, difficulty, colors, pc, answer, char_colors, line_colors,
          font_paths, gi, draw, width, height, start_point, li, place,
          paths, ni, result, sp>>

----------------------------------------------------------------------------
(* Bounds of the model.                                                    *)

MaxLen == 2          \* length ranges over 0..MaxLen
MaxDifficulty == 3   \* difficulty ranges over 0..MaxDifficulty
MaxColors == 2       \* the palette has 0..MaxColors colors
MaxCmds == 6         \* random_split is applied to paths of 2..MaxCmds commands

----------------------------------------------------------------------------
(* Sequence helpers.                                                       *)

RECURSIVE SumWidths(_)
SumWidths(ps) ==
    IF ps = <<>> THEN 0 ELSE ps[1].width + SumWidths(Tail(ps))

RECURSIVE MaxHeight(_)
MaxHeight(ps) ==
    IF ps = <<>> THEN 0
    ELSE LET m == MaxHeight(Tail(ps))
         IN  IF ps[1].height > m THEN ps[1].height ELSE m

RECURSIVE Flatten(_)
Flatten(ss) ==
    IF ss = <<>> THEN <<>> ELSE ss[1] \o Flatten(Tail(ss))

Reverse(s) == [i \in 1..Len(s) |-> s[Len(s) + 1 - i]]

RotateLeft(s) == IF s = <<>> THEN s ELSE Append(Tail(s), s[1])

\* the number of indices of s whose element satisfies Test
Count(s, Test(_)) == Cardinality({i \in 1..Len(s) : Test(s[i])})

----------------------------------------------------------------------------
(* model.rs: Command.                                                      *)

CommandType == {"Move", "LineTo"}

Command_new(x, y, command_type) ==
    [x |-> x, y |-> y, command_type |-> command_type]

Command_offset(c, x, y) ==
    [x |-> c.x + x, y |-> c.y + y, command_type |-> c.command_type]

\* x, y: scale factors in tenths
Command_scale(c, x, y) ==
    [x |-> (c.x * x) \div 10, y |-> (c.y * y) \div 10,
     command_type |-> c.command_type]

\* angle: [cos, sin] in thousandths
Command_rotate(c, angle) ==
    [x |-> (c.x * angle.cos - c.y * angle.sin) \div 1000,
     y |-> (c.x * angle.sin + c.y * angle.cos) \div 1000,
     command_type |-> c.command_type]

\* Display for Command: the letter and the two numbers
Command_fmt(c) ==
    <<IF c.command_type = "Move" THEN "M" ELSE "L", c.x, c.y>>

----------------------------------------------------------------------------
(* model.rs: Path.                                                         *)

MapCommands(commands, F(_)) == [i \in 1..Len(commands) |-> F(commands[i])]

Path_scale(p, x, y) ==
    [commands |-> MapCommands(p.commands, LAMBDA c : Command_scale(c, x, y)),
     width |-> (p.width * x) \div 10,
     height |-> (p.height * y) \div 10,
     color |-> p.color]

Path_rotate(p, angle) ==
    [commands |-> MapCommands(p.commands, LAMBDA c : Command_rotate(c, angle)),
     width |-> p.width, height |-> p.height, color |-> p.color]

Path_offset(p, x, y) ==
    [commands |-> MapCommands(p.commands, LAMBDA c : Command_offset(c, x, y)),
     width |-> p.width, height |-> p.height, color |-> p.color]

Path_with_color(p, color) ==
    [commands |-> p.commands, width |-> p.width, height |-> p.height,
     color |-> color]

\* Display for Path: d, stroke and stroke-width of the <path> element
Path_fmt(p) ==
    [d |-> MapCommands(p.commands, Command_fmt),
     stroke |-> p.color,
     stroke_width |-> p.height \div 12]

\* Path::parse on the matches of the regex, given as <<letter, x, y>> triples.
\* The running maximum and minimum start at 0, and a value updates one of
\* them at most.
RECURSIVE ParseExtent(_, _, _)
ParseExtent(vals, max, min) ==
    IF vals = <<>> THEN [max |-> max, min |-> min]
    ELSE LET v == vals[1]
         IN  IF v > max THEN ParseExtent(Tail(vals), v, min)
             ELSE IF v < min THEN ParseExtent(Tail(vals), max, v)
             ELSE ParseExtent(Tail(vals), max, min)

Path_parse(caps) ==
    LET ex == ParseExtent([i \in 1..Len(caps) |-> caps[i][2]], 0, 0)
        ey == ParseExtent([i \in 1..Len(caps) |-> caps[i][3]], 0, 0)
        offset_x == (ex.max + ex.min) \div 2
        offset_y == (ey.max + ey.min) \div 2
    IN  [commands |->
            [i \in 1..Len(caps) |->
                Command_new(caps[i][2] - offset_x, caps[i][3] - offset_y,
                            IF caps[i][1] = "M" THEN "Move" ELSE "LineTo")],
         width |-> ex.max - ex.min,
         height |-> ey.max - ey.min,
         color |-> "black"]

----------------------------------------------------------------------------
(* model.rs: Path::random_split.  Its locals are the record                *)
(* [paths, commands, break_limit, start_cmd]; one SplitIter is one turn of  *)
(* `for command in &self.commands`.                                        *)

\* rng.random_range(2..=4)
BreakLimits == 2..4

\* the sub-path pushed onto paths
SubPath(self, commands) ==
    [commands |-> commands, width |-> self.width, height |-> self.height,
     color |-> self.color]

\* ShouldBreak closing a run one command late
ShouldBreakLate(commands, break_limit, command) ==
    Len(commands) > break_limit \/ command.command_type = "Move"

\* the condition that closes the current run
ShouldBreak(commands, break_limit, command) ==
    Len(commands) >= break_limit \/ command.command_type = "Move"

\* the locals before the loop
SplitEnter(self, limit) ==
    [paths |-> <<>>, commands |-> <<>>, break_limit |-> limit,
     start_cmd |-> self.commands[1]]

\* SplitIter leaving the closing LineTo out of the run it closes
SplitIterDropsClosing(self, st, command, limit) ==
    IF ShouldBreak(st.commands, st.break_limit, command)
    THEN [paths |-> IF Len(st.commands) > 1
                    THEN Append(st.paths, SubPath(self, st.commands))
                    ELSE st.paths,
          commands |-> <<>>,
          break_limit |-> limit,
          start_cmd |-> [command EXCEPT !.command_type = "Move"]]
    ELSE [st EXCEPT !.commands =
                Append(IF st.commands = <<>> THEN <<st.start_cmd>> ELSE st.commands,
                       command)]

\* SplitIter keeping the type of the command that closes a run in start_cmd
SplitIterKeepsType(self, st, command, limit) ==
    IF ShouldBreak(st.commands, st.break_limit, command)
    THEN LET closing == IF command.command_type = "LineTo"
                        THEN Append(st.commands, command)
                        ELSE st.commands
         IN  [paths |-> IF Len(closing) > 1
                        THEN Append(st.paths, SubPath(self, closing))
                        ELSE st.paths,
              commands |-> <<>>,
              break_limit |-> limit,
              start_cmd |-> command]
    ELSE [st EXCEPT !.commands =
                Append(IF st.commands = <<>> THEN <<st.start_cmd>> ELSE st.commands,
                       command)]

\* one turn of the loop; limit is the draw made when the run is closed
SplitIter(self, st, command, limit) ==
    IF ShouldBreak(st.commands, st.break_limit, command)
    THEN LET closing == IF command.command_type = "LineTo"
                        THEN Append(st.commands, command)
                        ELSE st.commands
         IN  [paths |-> IF Len(closing) > 1
                        THEN Append(st.paths, SubPath(self, closing))
                        ELSE st.paths,
              commands |-> <<>>,
              break_limit |-> limit,
              start_cmd |-> [command EXCEPT !.command_type = "Move"]]
    ELSE [st EXCEPT !.commands =
                Append(IF st.commands = <<>> THEN <<st.start_cmd>> ELSE st.commands,
                       command)]

\* the flush after the loop, and the value returned
SplitReturn(self, st) ==
    IF Len(st.commands) > 1
    THEN Append(st.paths, SubPath(self, st.commands))
    ELSE st.paths

\* the draws a turn can make: a fresh limit when it closes a run, none otherwise
TurnLimits(st, command) ==
    IF ShouldBreak(st.commands, st.break_limit, command)
    THEN BreakLimits
    ELSE {st.break_limit}

\* the values the loop can return from turn i on, over all its draws
RECURSIVE SplitFrom(_, _, _)
SplitFrom(self, st, i) ==
    IF i > Len(self.commands) THEN {SplitReturn(self, st)}
    ELSE UNION { SplitFrom(self, SplitIter(self, st, self.commands[i], limit), i + 1) :
                    limit \in TurnLimits(st, self.commands[i]) }

\* random_split: the values it can return, over all its draws
random_split(self) ==
    UNION { SplitFrom(self, SplitEnter(self, limit), 1) : limit \in BreakLimits }

----------------------------------------------------------------------------
(* random_split as a machine of its own: the paths it is applied to are    *)
(* all sequences of 2..MaxCmds Move and LineTo commands, the i-th command   *)
(* at the point (10 i, 5 i), so that every point of the input is distinct. *)

SplitPoint(i, command_type) == Command_new(10 * i, 5 * i, command_type)

SplitInputs ==
    { [commands |-> [i \in DOMAIN t |-> SplitPoint(i, t[i])],
       width |-> 100, height |-> 120, color |-> "c1"] :
        t \in UNION { [1..n -> CommandType] : n \in 2..MaxCmds } }

SplitIdle == [pc |-> "idle"]

SplitCall ==
    /\ sp.pc = "call"
    /\ \E limit \in BreakLimits :
          sp' = [pc |-> "loop", self |-> sp.self, i |-> 1,
                 st |-> SplitEnter(sp.self, limit)]
    /\ UNCHANGED buildVars

SplitLoop ==
    /\ sp.pc = "loop"
    /\ sp.i <= Len(sp.self.commands)
    /\ \E limit \in BreakLimits :
          sp' = [sp EXCEPT !.i = sp.i + 1,
                           !.st = SplitIter(sp.self, sp.st,
                                            sp.self.commands[sp.i], limit)]
    /\ UNCHANGED buildVars

SplitDone ==
    /\ sp.pc = "loop"
    /\ sp.i > Len(sp.self.commands)
    /\ sp' = [pc |-> "done", self |-> sp.self,
              out |-> SplitReturn(sp.self, sp.st)]
    /\ UNCHANGED buildVars

----------------------------------------------------------------------------
(* resource.rs is not part of the sources: the alphabet table and the      *)
(* glyph table are taken from the specification (a fixed alphabet; a       *)
(* mapping from characters to origin-centred paths built by Path::parse;   *)
(* characters without a glyph are skipped).                                *)

FONT_TABLE == <<"A", "C">>

GlyphSource ==
    [A |-> << <<"M", 0, 0>>, <<"L", 100, 600>>, <<"L", 200, 0>>, <<"L", 50, 300>> >>]

HasGlyph(ch) == ch \in DOMAIN GlyphSource

FONT_PATHS(ch) == Path_parse(GlyphSource[ch])

----------------------------------------------------------------------------
(* lib.rs: the inputs of build and the samples of its random draws.        *)

\* the palette of tests::it_works; a palette of n colors is its first n
ColorNames == <<"#0078D6", "#aa3333", "#f08012", "#33aa00", "#aa33aa">>

Palette(n) == SubSeq(ColorNames, 1, n)

\* gen_range(lo..hi) on f64: the middle of the range;
\* the draw panics when the range is empty
SampleRange(lo, hi) == IF lo < hi THEN {lo + (hi - lo) \div 2} ELSE {}

\* gen_range(-0.2..0.2 * PI): the angle 0.4, as [cos, sin]
AngleSamples == { [cos |-> 921, sin |-> 389] }

\* gen_range(0.8..1.2): 0.8 and 1.1
ScaleSamples == {8, 11}

\* choose(): an element of the Vec, None when it is empty
Choose(v) == {v[i] : i \in DOMAIN v}

\* paths.shuffle(): the order kept, reversed, or rotated by one
Shuffles(ps) == {ps, Reverse(ps), RotateLeft(ps)}

NoDraw == [kind |-> "none"]

NoPlace == [kind |-> "none"]

----------------------------------------------------------------------------
(* lib.rs: BiosvgBuilder::build, one action per loop turn.                 *)

Panic(line) ==
    /\ pc' = "panic"
    /\ result' = [kind |-> "panic", line |-> line]

\* line 76: for _ in 0..self.length
AnswerChar ==
    /\ pc = "answer"
    /\ Len(answer) < length
    /\ \E index \in 1..Len(FONT_TABLE) : answer' = Append(answer, FONT_TABLE[index])
    /\ UNCHANGED <<length, difficulty, colors, pc, char_colors, line_colors,
                   font_paths, gi, draw, width, height, start_point, li, place,
                   paths, ni, result, sp>>

AnswerDone ==
    /\ pc = "answer"
    /\ Len(answer) = length
    /\ pc' = "colors"
    /\ UNCHANGED <<length, difficulty, colors, answer, char_colors, line_colors,
                   font_paths, gi, draw, width, height, start_point, li, place,
                   paths, ni, result, sp>>

\* the color the loop of line 84 is at
NextColor == Len(char_colors) + Len(line_colors) + 1

\* lines 85-90: the bucket a color goes to
SplitColor(give_char, color, chars, lines) ==
    IF give_char = 1
    THEN [chars |-> Append(chars, color), lines |-> lines]
    ELSE [chars |-> chars, lines |-> Append(lines, color)]

\* lines 84-91: for color in &self.colors
ColorSplit ==
    /\ pc = "colors"
    /\ NextColor <= Len(colors)
    /\ \E give_char \in 0..1 :
          LET b == SplitColor(give_char, colors[NextColor], char_colors, line_colors)
          IN  /\ char_colors' = b.chars
              /\ line_colors' = b.lines
    /\ UNCHANGED <<length, difficulty, colors, pc, answer, font_paths, gi, draw,
                   width, height, start_point, li, place, paths, ni, result, sp>>

ColorsDone ==
    /\ pc = "colors"
    /\ NextColor > Len(colors)
    /\ pc' = "glyphs"
    /\ UNCHANGED <<length, difficulty, colors, answer, char_colors, line_colors,
                   font_paths, gi, draw, width, height, start_point, li, place,
                   paths, ni, result, sp>>

\* lines 101-105: the transform chain of one glyph
Transform(path, d) ==
    Path_offset(
        Path_rotate(
            Path_scale(Path_with_color(path, d.random_color),
                       d.random_scale_x, d.random_scale_y),
            d.random_angle),
        0, d.random_offset)

\* line 97: the range of random_offset
OffsetRange(path) == SampleRange(0, path.width \div 10)

\* line 94: a character without a glyph is skipped
GlyphSkip ==
    /\ pc = "glyphs"
    /\ gi <= Len(answer)
    /\ ~HasGlyph(answer[gi])
    /\ gi' = gi + 1
    /\ UNCHANGED <<length, difficulty, colors, pc, answer, char_colors, line_colors,
                   font_paths, draw, width, height, start_point, li, place,
                   paths, ni, result, sp>>

\* lines 94-108
GlyphTransform ==
    /\ pc = "glyphs"
    /\ gi <= Len(answer)
    /\ HasGlyph(answer[gi])
    /\ LET path == FONT_PATHS(answer[gi])
       IN  \E random_angle \in AngleSamples, random_offset \in OffsetRange(path),
              random_color \in Choose(char_colors),
              random_scale_x \in ScaleSamples, random_scale_y \in ScaleSamples :
                /\ draw' = [kind |-> "glyph",
                            ch |-> answer[gi],
                            random_angle |-> random_angle,
                            random_offset |-> random_offset,
                            random_color |-> random_color,
                            random_scale_x |-> random_scale_x,
                            random_scale_y |-> random_scale_y]
                /\ font_paths' = Append(font_paths, Transform(path, draw'))
    /\ gi' = gi + 1
    /\ UNCHANGED <<length, difficulty, colors, pc, answer, char_colors, line_colors,
                   width, height, start_point, li, place, paths, ni, result, sp>>

\* line 97: the draw from an empty range; line 98: unwrap() on None
GlyphPanic ==
    /\ pc = "glyphs"
    /\ gi <= Len(answer)
    /\ HasGlyph(answer[gi])
    /\ \/ /\ OffsetRange(FONT_PATHS(answer[gi])) = {}
          /\ Panic(97)
       \/ /\ OffsetRange(FONT_PATHS(answer[gi])) # {}
          /\ Choose(char_colors) = {}
          /\ Panic(98)
    /\ UNCHANGED <<length, difficulty, colors, answer, char_colors, line_colors,
                   font_paths, gi, draw, width, height, start_point, li, place,
                   paths, ni, sp>>

\* lines 110-118: height is the largest height of font_paths, from 0.0
BoundsHeight(fp) == MaxHeight(fp)

\* BoundsWidth without the margin
BoundsWidthNoMargin(fp) == SumWidths(fp)

\* lines 110-119: the sum of the widths plus 1.5 * height
BoundsWidth(fp) == SumWidths(fp) + (3 * BoundsHeight(fp)) \div 2

\* FirstStartPoint beyond the margin
FirstStartPointWide(h) == (h * 155) \div 100

\* line 120: height * 0.55
FirstStartPoint(h) == (h * 55) \div 100

\* lines 110-120
Bounds ==
    /\ pc = "glyphs"
    /\ gi > Len(answer)
    /\ width' = BoundsWidth(font_paths)
    /\ height' = BoundsHeight(font_paths)
    /\ start_point' = FirstStartPoint(height')
    /\ pc' = "layout"
    /\ UNCHANGED <<length, difficulty, colors, answer, char_colors, line_colors,
                   font_paths, gi, draw, li, place, paths, ni, result, sp>>

\* line 123: start_point + path.width / 2.0
LayoutOffsetX(cursor, path) == cursor + path.width \div 2

\* line 124: (height * 1.5) / 2.0
LayoutOffsetY(h) == ((3 * h) \div 2) \div 2

\* line 127: path.width + height * 0.4 / self.length as f64
Advance(path, h, len) == path.width + (h * 4) \div (10 * len)

\* lines 122-128: for path in font_paths
Layout ==
    /\ pc = "layout"
    /\ li <= Len(font_paths)
    /\ LET path == font_paths[li]
           offset_x == LayoutOffsetX(start_point, path)
           offset_y == LayoutOffsetY(height)
       IN  /\ place' = [kind |-> "glyph", offset_x |-> offset_x, offset_y |-> offset_y]
           /\ \E random_splited_path \in
                    random_split(Path_offset(path, offset_x, offset_y)) :
                 paths' = paths \o random_splited_path
           /\ start_point' = start_point + Advance(path, height, length)
    /\ li' = li + 1
    /\ UNCHANGED <<length, difficulty, colors, pc, answer, char_colors, line_colors,
                   font_paths, gi, draw, width, height, ni, result, sp>>

LayoutDone ==
    /\ pc = "layout"
    /\ li > Len(font_paths)
    /\ pc' = "noise"
    /\ UNCHANGED <<length, difficulty, colors, answer, char_colors, line_colors,
                   font_paths, gi, draw, width, height, start_point, li, place,
                   paths, ni, result, sp>>

\* NoiseContinues with the end of the range included
NoiseContinuesInclusive(n, d) == n <= d

\* line 129: for _ in 1..self.difficulty, ni the value the range is at
NoiseContinues(n, d) == n < d

\* lines 135-150: the stroke pushed onto paths
NoisePath(start_x, start_y, end_x, end_y, color, w, h) ==
    [commands |-> <<Command_new(start_x, start_y, "Move"),
                    Command_new(end_x, end_y, "LineTo")>>,
     width |-> w,
     height |-> (h * 10) \div 15,
     color |-> color]

\* lines 130-151
NoiseStroke ==
    /\ pc = "noise"
    /\ NoiseContinues(ni, difficulty)
    /\ \E start_x \in SampleRange(0, width) :
       \E end_x \in SampleRange(start_x, start_x + height) :
       \E start_y \in SampleRange(0, height) :
       \E end_y \in SampleRange(start_y, start_y + height) :
       \E color \in Choose(line_colors) :
          paths' = Append(paths, NoisePath(start_x, start_y, end_x, end_y, color,
                                           width, height))
    /\ ni' = ni + 1
    /\ UNCHANGED <<length, difficulty, colors, pc, answer, char_colors, line_colors,
                   font_paths, gi, draw, width, height, start_point, li, place,
                   result, sp>>

\* lines 130-133: a draw from an empty range; line 134: unwrap() on None
NoisePanic ==
    /\ pc = "noise"
    /\ NoiseContinues(ni, difficulty)
    /\ \/ /\ SampleRange(0, width) = {}
          /\ Panic(130)
       \/ /\ SampleRange(0, width) # {}
          /\ SampleRange(0, height) = {}
          /\ Panic(131)
       \/ /\ SampleRange(0, width) # {}
          /\ SampleRange(0, height) # {}
          /\ Choose(line_colors) = {}
          /\ Panic(134)
    /\ UNCHANGED <<length, difficulty, colors, answer, char_colors, line_colors,
                   font_paths, gi, draw, width, height, start_point, li, place,
                   paths, ni, sp>>

\* line 152: paths.shuffle(&mut rng)
Shuffle ==
    /\ pc = "noise"
    /\ ~NoiseContinues(ni, difficulty)
    /\ paths' \in Shuffles(paths)
    /\ pc' = "serialize"
    /\ UNCHANGED <<length, difficulty, colors, answer, char_colors, line_colors,
                   font_paths, gi, draw, width, height, start_point, li, place,
                   ni, result, sp>>

\* lines 160-167: the root element: width, height, viewBox and the content
Svg(w, h, ps) ==
    [width |-> w,
     height |-> (3 * h) \div 2,
     viewBox |-> <<0, 0, w, (3 * h) \div 2>>,
     content |-> [i \in 1..Len(ps) |-> Path_fmt(ps[i])]]

\* lines 153-168
Serialize ==
    /\ pc = "serialize"
    /\ result' = [kind |-> "Ok", answer |-> answer, svg |-> Svg(width, height, paths)]
    /\ pc' = "done"
    /\ UNCHANGED <<length, difficulty, colors, answer, char_colors, line_colors,
                   font_paths, gi, draw, width, height, start_point, li, place,
                   paths, ni, sp>>

----------------------------------------------------------------------------
(* The specifications.                                                     *)

BuildInit ==
    /\ length \in 0..MaxLen
    /\ difficulty \in 0..MaxDifficulty
    /\ colors \in {Palette(n) : n \in 0..MaxColors}
    /\ pc = "answer"
    /\ answer = <<>>
    /\ char_colors = <<>>
    /\ line_colors = <<>>
    /\ font_paths = <<>>
    /\ gi = 1
    /\ draw = NoDraw
    /\ width = 0
    /\ height = 0
    /\ start_point = 0
    /\ li = 1
    /\ place = NoPlace
    /\ paths = <<>>
    /\ ni = 1
    /\ result = [kind |-> "none"]

Init ==
    /\ BuildInit
    /\ sp = SplitIdle

Next ==
    \/ AnswerChar
    \/ AnswerDone
    \/ ColorSplit
    \/ ColorsDone
    \/ GlyphSkip
    \/ GlyphTransform
    \/ GlyphPanic
    \/ Bounds
    \/ Layout
    \/ LayoutDone
    \/ NoiseStroke
    \/ NoisePanic
    \/ Shuffle
    \/ Serialize

Spec == Init /\ [][Next]_vars

\* random_split alone, applied to every path of SplitInputs
SplitInit ==
    /\ length = 0
    /\ difficulty = 0
    /\ colors = <<>>
    /\ pc = "idle"
    /\ answer = <<>>
    /\ char_colors = <<>>
    /\ line_colors = <<>>
    /\ font_paths = <<>>
    /\ gi = 1
    /\ draw = NoDraw
    /\ width = 0
    /\ height = 0
    /\ start_point = 0
    /\ li = 1
    /\ place = NoPlace
    /\ paths = <<>>
    /\ ni = 1
    /\ result = [kind |-> "none"]
    /\ \E self \in SplitInputs : sp = [pc |-> "call", self |-> self]

SplitNext ==
    \/ SplitCall
    \/ SplitLoop
    \/ SplitDone

SplitSpec == SplitInit /\ [][SplitNext]_vars

----------------------------------------------------------------------------
(* Definitions used to state the properties.                               *)

Range(s) == {s[i] : i \in DOMAIN s}

\* s and t hold the same elements, each the same number of times
SamePaths(s, t) ==
    /\ Len(s) = Len(t)
    /\ \A x \in Range(s) \cup Range(t) :
          Cardinality({i \in DOMAIN s : s[i] = x}) =
          Cardinality({i \in DOMAIN t : t[i] = x})

SetMax(S) == IF S = {} THEN 0 ELSE CHOOSE m \in S : \A x \in S : x <= m

RECURSIVE SumTo(_, _)
SumTo(f, n) == IF n = 0 THEN 0 ELSE f[n] + SumTo(f, n - 1)

\* the sum of the widths and the largest height of the transformed glyphs
GlyphWidthSum == SumTo([i \in DOMAIN font_paths |-> font_paths[i].width], Len(font_paths))

GlyphMaxHeight == SetMax({font_paths[i].height : i \in DOMAIN font_paths})

\* the types of the commands of a path
Types(commands) == [i \in DOMAIN commands |-> commands[i].command_type]

\* the points of the LineTo commands of a sequence of commands, in order
RECURSIVE LineToPoints(_)
LineToPoints(commands) ==
    IF commands = <<>> THEN <<>>
    ELSE (IF commands[1].command_type = "LineTo"
          THEN << <<commands[1].x, commands[1].y>> >>
          ELSE <<>>) \o LineToPoints(Tail(commands))

\* a noise stroke carries the width of the image; a glyph fragment carries the
\* width of its glyph, which is smaller
IsNoise(p) == p.width = width

BuildOver == pc \in {"done", "panic"}

\* the sub-paths random_split has emitted so far
Emitted ==
    IF sp.pc = "loop" THEN sp.st.paths
    ELSE IF sp.pc = "done" THEN sp.out
    ELSE <<>>

----------------------------------------------------------------------------
(* C1: with length >= 1 and a palette of at least 2 colors build never     *)
(* panics, and it returns Ok with an answer of exactly `length`            *)
(* characters of the alphabet table.                                       *)
C1_BuildSucceeds ==
    (pc # "idle" /\ length >= 1 /\ Len(colors) >= 2) =>
        /\ pc # "panic"
        /\ pc = "done" =>
              /\ result.kind = "Ok"
              /\ Len(result.answer) = length
              /\ \A i \in DOMAIN result.answer : result.answer[i] \in Range(FONT_TABLE)

(* C2: for a palette of at least 2 colors the partition ends with both     *)
(* buckets non-empty and every color in exactly one of them.               *)
C2_BothBucketsNonEmpty ==
    (pc \in {"glyphs", "layout", "noise", "serialize", "done"} /\ Len(colors) >= 2) =>
        /\ char_colors # <<>>
        /\ line_colors # <<>>
        /\ \A c \in Range(colors) :
              (c \in Range(char_colors)) # (c \in Range(line_colors))

(* C3: with a palette of fewer than 2 colors build ends by returning an    *)
(* error value, and never panics.                                          *)
C3_SmallPaletteIsError ==
    (pc # "idle" /\ Len(colors) < 2) =>
        /\ pc # "panic"
        /\ pc = "done" => result.kind = "Err"

C5_RootBox ==
    pc = "done" =>
        /\ result.svg.width = GlyphWidthSum + (3 * GlyphMaxHeight) \div 2
        /\ result.svg.height = (3 * GlyphMaxHeight) \div 2
        /\ result.svg.viewBox = <<0, 0, result.svg.width, result.svg.height>>

C5_Witness ==
    /\ pc = "done"
    /\ Len(font_paths) = 2
    /\ font_paths[1].height > font_paths[2].height
    /\ font_paths[1].width < font_paths[2].width
    /\ result.svg.width = GlyphWidthSum + (3 * font_paths[1].height) \div 2

(* C6, as stated: every sub-path random_split emits has at least 2 and at  *)
(* most 4 commands.                                                        *)
C6_RunsOfTwoToFour ==
    \A k \in DOMAIN Emitted :
        Len(Emitted[k].commands) >= 2 /\ Len(Emitted[k].commands) <= 4

(* C6, amended: every sub-path random_split emits has at least 2 and at    *)
(* most 5 commands: a run is closed when it has reached the limit drawn    *)
(* from 2..4, and the LineTo that closes it is added to it.                *)
C6_RunsOfTwoToFive ==
    \A k \in DOMAIN Emitted :
        Len(Emitted[k].commands) >= 2 /\ Len(Emitted[k].commands) <= 5

C6_Witness ==
    /\ sp.pc = "done"
    /\ Len(sp.self.commands) >= 2
    /\ \E k \in DOMAIN sp.out : Len(sp.out[k].commands) = 5
    /\ \E k \in DOMAIN sp.out : Len(sp.out[k].commands) = 2

\* the path random_split is applied to starts with a Move
StartsWithMove == sp.pc # "idle" /\ sp.self.commands[1].command_type = "Move"

(* C7, as stated: for every path, the LineTo commands of the sub-paths     *)
(* random_split emits, taken in the order of emission, are the LineTo      *)
(* points of the input path, in the same order, none lost and none         *)
(* duplicated.                                                             *)
C7_LineTosPreserved ==
    sp.pc = "done" =>
        LineToPoints(Flatten([k \in DOMAIN sp.out |-> sp.out[k].commands]))
            = LineToPoints(sp.self.commands)

(* C7, amended: for every path that starts with a Move, the LineTo         *)
(* commands of the sub-paths random_split emits, taken in the order of     *)
(* emission, are the LineTo points of the input path, in the same order,   *)
(* none lost and none duplicated.                                          *)
C7_LineTosPreservedAfterMove ==
    (sp.pc = "done" /\ StartsWithMove) =>
        LineToPoints(Flatten([k \in DOMAIN sp.out |-> sp.out[k].commands]))
            = LineToPoints(sp.self.commands)

C7_Witness ==
    /\ sp.pc = "done"
    /\ StartsWithMove
    /\ Types(sp.self.commands) = <<"Move", "LineTo", "LineTo", "LineTo", "LineTo">>
    /\ Len(sp.out) = 2
    /\ Len(LineToPoints(Flatten([k \in DOMAIN sp.out |-> sp.out[k].commands]))) = 4

\* every emitted sub-path, and the run being built, starts with a Move and
\* continues with LineTo commands; the run after a close starts with a Move
\* at the point of the command that closed the run before it
RunsStartWithMove ==
    /\ \A k \in DOMAIN Emitted :
          /\ Emitted[k].commands[1].command_type = "Move"
          /\ \A j \in 2..Len(Emitted[k].commands) :
                Emitted[k].commands[j].command_type = "LineTo"
    /\ sp.pc = "loop" =>
          /\ sp.st.commands # <<>> =>
                /\ sp.st.commands[1].command_type = "Move"
                /\ sp.st.commands[1] = sp.st.start_cmd
                /\ \A j \in 2..Len(sp.st.commands) :
                      sp.st.commands[j].command_type = "LineTo"
          /\ (sp.i > 1 /\ sp.st.commands = <<>>) =>
                sp.st.start_cmd =
                    [sp.self.commands[sp.i - 1] EXCEPT !.command_type = "Move"]

(* C8, as stated: for every path, every sub-path random_split emits starts *)
(* with a Move and continues with LineTo commands only, and the run after  *)
(* a close starts with a Move at the point of the command that closed the  *)
(* run before it.                                                          *)
C8_RunsStartWithMove == sp.pc # "idle" => RunsStartWithMove

(* C8, amended: for every path that starts with a Move, every sub-path     *)
(* random_split emits starts with a Move and continues with LineTo         *)
(* commands only, and the run after a close starts with a Move at the      *)
(* point of the command that closed the run before it.                     *)
C8_RunsStartWithMoveAfterMove == StartsWithMove => RunsStartWithMove

C8_Witness ==
    /\ sp.pc = "done"
    /\ StartsWithMove
    /\ Len(sp.out) >= 2
    /\ \E j \in DOMAIN sp.self.commands :
          /\ sp.self.commands[j].command_type = "LineTo"
          /\ sp.out[2].commands[1] =
                [sp.self.commands[j] EXCEPT !.command_type = "Move"]

(* C9: the offset step of the transform of a glyph adds random_offset to   *)
(* the x of every command and leaves every y as the rotation left it, the  *)
(* steps being color, scale, rotate, offset in this order.                 *)
C9_OffsetIsHorizontal ==
    draw.kind = "glyph" =>
        LET rotated ==
                Path_rotate(
                    Path_scale(Path_with_color(FONT_PATHS(draw.ch), draw.random_color),
                               draw.random_scale_x, draw.random_scale_y),
                    draw.random_angle)
            kept == font_paths[Len(font_paths)]
        IN  /\ Len(kept.commands) = Len(rotated.commands)
            /\ \A i \in DOMAIN kept.commands :
                  /\ kept.commands[i].x = rotated.commands[i].x + draw.random_offset
                  /\ kept.commands[i].y = rotated.commands[i].y

(* C10: the cursor of the layout starts at 0.55 maxHeight; a glyph is      *)
(* translated by x = cursor + width / 2 and y = imageHeight / 2, with      *)
(* imageHeight = 1.5 maxHeight; the cursor then advances by the width of   *)
(* the glyph plus 0.4 maxHeight / length, so it strictly increases; and    *)
(* the slot [cursor, cursor + width] of every glyph lies inside            *)
(* [0, image width].                                                       *)
C10_Layout ==
    /\ [](pc = "layout" =>
            /\ li = 1 => start_point = (55 * GlyphMaxHeight) \div 100
            /\ li <= Len(font_paths) =>
                  /\ 0 <= start_point
                  /\ start_point + font_paths[li].width
                        <= GlyphWidthSum + (3 * GlyphMaxHeight) \div 2)
    /\ [][(pc = "layout" /\ li' = li + 1) =>
            LET glyph == font_paths[li]
                x == start_point + glyph.width \div 2
                y == ((3 * GlyphMaxHeight) \div 2) \div 2
                placed == SubSeq(paths', Len(paths) + 1, Len(paths'))
            IN  /\ place'.offset_x = x
                /\ place'.offset_y = y
                /\ placed # <<>>
                /\ SubSeq(paths', 1, Len(paths)) = paths
                /\ \A k \in DOMAIN placed : \A c \in Range(placed[k].commands) :
                      \E g \in Range(glyph.commands) : c.x = g.x + x /\ c.y = g.y + y
                /\ start_point' =
                      start_point + glyph.width + (4 * GlyphMaxHeight) \div (10 * length)
                /\ start_point' > start_point]_vars

C10_Witness ==
    /\ pc = "noise"
    /\ length = 2
    /\ Len(font_paths) = 2
    /\ li = 3
    /\ font_paths[1].width # font_paths[2].width
    /\ place.offset_x = (55 * height) \div 100 + font_paths[1].width
                            + (4 * height) \div 20 + font_paths[2].width \div 2
    /\ place.offset_x + font_paths[2].width \div 2 < width

====
